---- MODULE Spec2Model ----
(***************************************************************************)
(* A model of gosnowapi's snowapi.Client: the statement lifecycle driven   *)
(* over HTTP (Execute, Poll, Cancel, WaitUntilComplete) and the credential *)
(* issued for every request (auth.GenerateJWT).                            *)
(*                                                                         *)
(* Spec: one caller drives one Client, one call after the other.           *)
(* ConcSpec: several callers drive one Client at the same time.            *)
(* JWTSpec: auth.GenerateJWT on its own, over many account and user names. *)
(* NewClientSpec: NewClient on its own, over the Configs the README shows. *)
(* LoopSpec: the wait loop of the unit tests beside the loop of the Client.*)
(*                                                                         *)
(* The service and the network are the environment: every HTTP exchange   *)
(* is drawn from Exchanges.  A Go error is its text (the value of          *)
(* err.Error()), a nil pointer or a nil error is a record whose nil field  *)
(* is TRUE.                                                                *)
(*                                                                         *)
(* Inputs left out: account names and statement handles that do not parse *)
(* as a URL (http.NewRequest fails on them before anything is sent), and   *)
(* statements json.Marshal cannot encode (there are none: the payload is a *)
(* struct of a string, an int and a string).                               *)
(***************************************************************************)
EXTENDS Integers, Sequences, FiniteSets, TLC

VARIABLES
    config,      \* Client.config: the Config given to NewClient
    baseURL,     \* Client.baseURL
    op,          \* the operation the caller is in ("none" between calls)
    pc,          \* the caller's position: idle, loop, poll, sleep, done
    handle,      \* the handle argument of the running Poll / WaitUntilComplete
    maxRetries,  \* the maxRetries argument of the running WaitUntilComplete
    i,           \* the loop counter of WaitUntilComplete
    polls,       \* history: what each Poll of this call returned, in order
    sleeps,      \* history: the number of time.Sleep(interval) of this call
    xs,          \* history: the HTTP exchanges of this call, in order
    sent,        \* history: the HTTP requests of this call, in order
    issued,      \* history: the number of credentials issued in this call
    ret,         \* what the operation returned (meaningful when pc = "done")
    args,        \* history: the arguments of the running Execute
    cancelled,   \* history: how the call just before this one, a Cancel, ended
    rows,        \* the rows Query returned (meaningful when pc = "done")
    conc,        \* ConcSpec: the position and the locals of every caller
    jwt,         \* JWTSpec: the TokenConfig given to GenerateJWT and its result
    newc,        \* NewClientSpec: the Config given to NewClient and its result
    pair         \* LoopSpec: the two wait loops and the probes they are given

\* What the single caller of Spec never touches.
others == <<conc, jwt, newc, pair>>

vars == <<config, baseURL, op, pc, handle, maxRetries, i, polls, sleeps, xs,
          sent, issued, ret, args, cancelled, rows, conc, jwt, newc, pair>>

----------------------------------------------------------------------------
(* Bounds of the model *)

\* The largest maxRetries the caller passes to WaitUntilComplete.
MaxAttempts == 3

\* The maxRetries values the caller passes: an int, so also 0 and a negative.
Attempts == (0 - 1)..MaxAttempts

\* The largest maxRetries a caller of ConcSpec passes to WaitUntilComplete.
ConcAttempts == 2

\* The longest account and user name JWTSpec gives to GenerateJWT, but for the
\* names of Accounts and Users.
MaxNameLen == 3

----------------------------------------------------------------------------
(* net/http status codes the client names *)

StatusOK == 200
StatusAccepted == 202
StatusUnprocessableEntity == 422

\* Two statuses the client does not name.
OtherStatuses == {404, 500}

Statuses == {StatusOK, StatusAccepted, StatusUnprocessableEntity} \cup OtherStatuses

\* The body code Execute reads as "still executing".
AsyncCode == "333334"

\* The timeout Execute puts in every payload.
Timeout == 60

\* The seconds NewClient gives the http.Client when the Config gives none.
DefaultTimeout == 10

----------------------------------------------------------------------------
(* Values *)

NilErr == [nil |-> TRUE, text |-> ""]
Err(text) == [nil |-> FALSE, text |-> text]
\* fmt.Errorf("<prefix>%w", err)
Wrap(prefix, err) == [nil |-> FALSE, text |-> prefix \o err.text]

\* A *QueryResponse: the nil pointer, or the decoded body.
NilResp == [nil |-> TRUE, Code |-> "", Message |-> "", StatementHandle |-> "",
            Data |-> <<>>]
QueryResponse(code, message, h, data) ==
    [nil |-> FALSE, Code |-> code, Message |-> message, StatementHandle |-> h,
     Data |-> data]

\* The bodies the service answers with, as encoding/json decodes them into a
\* QueryResponse (a field the JSON object lacks keeps its zero value).
OkBody == QueryResponse("090001", "done", "h1", <<<<"row1">>, <<"row2">>>>)
RunBody == QueryResponse(AsyncCode, "still running", "h1", <<>>)
FailBody == QueryResponse("422", "execution error", "h1", <<>>)
EmptyBody == QueryResponse("", "", "", <<>>)
Bodies == {OkBody, RunBody, FailBody, EmptyBody}

\* What http.Client.Do fails with.
TransportErrors == {"network error", "context deadline exceeded"}

\* One HTTP exchange: the transport fails (neterr), or the service answers with
\* a status and a body that decodes as JSON or does not (an empty body: EOF).
Exchanges ==
    {[neterr |-> e, status |-> 0, decodes |-> FALSE, body |-> NilResp] :
        e \in TransportErrors}
    \cup {[neterr |-> "", status |-> s, decodes |-> TRUE, body |-> b] :
            s \in Statuses, b \in Bodies}
    \cup {[neterr |-> "", status |-> s, decodes |-> FALSE, body |-> NilResp] :
            s \in Statuses}

Handles == {"h1"}
Statements == {"SELECT 1"}

\* *RequestOptions: nil, or RequestID with Retry (a *bool: nil, true, false).
NilOpts == [nil |-> TRUE, RequestID |-> "", Retry |-> "nil"]
Options ==
    {NilOpts} \cup {[nil |-> FALSE, RequestID |-> r, Retry |-> b] :
                        r \in {"", "r1"}, b \in {"nil", "true", "false"}}

\* Key material by what it decodes to.
PrivateKeys == {"rsa_pkcs8", "rsa_pkcs8_short", "ec_pkcs8", "rsa_pkcs1", "not_pem"}
PublicKeys == {"pem_public_key", "pem_other", "not_pem"}
\* Account and user names are sequences of characters.
Accounts == {<<"a", "b", ".", "c", "d", "-", "1", "2">>}
Users == {<<"v", "j">>}

Configs ==
    [Account : Accounts, User : Users, PrivateKey : PrivateKeys,
     PublicKey : PublicKeys]

\* The names of at most MaxNameLen characters over the given characters.
Names(chars) == UNION {[1..n -> chars] : n \in 0..MaxNameLen}

\* The TokenConfigs JWTSpec gives to GenerateJWT: also the empty name, which
\* GenerateJWT itself does not refuse.
TokenConfigs ==
    [Account : Names({"a", "B", ".", "-"}) \cup Accounts,
     User : Names({"v", "."}) \cup Users,
     PrivateKey : PrivateKeys, PublicKey : PublicKeys]

\* The Configs NewClientSpec gives to NewClient, written as the README writes
\* them: PrivateLink and OverrideHost are fields the README sets and the
\* Config of client.go does not have, so NewClient cannot read them.
DocConfigs ==
    [Account : Names({"a", "B", ".", "-"}) \cup Accounts,
     User : {<<>>} \cup Users,
     HTTPTimeout : {0, 5},
     PrivateLink : BOOLEAN,
     OverrideHost : {"", "custom.snowflakeproxy.internal"}]

\* NewClient not called yet.
NotConstructed ==
    [called |-> FALSE, nil |-> TRUE, baseURL |-> "", timeout |-> 0, err |-> NilErr]
NoNewClient ==
    [cfg |-> [Account |-> <<>>, User |-> <<>>, HTTPTimeout |-> 0,
              PrivateLink |-> FALSE, OverrideHost |-> ""],
     out |-> NotConstructed]

NoRet == [resp |-> NilResp, err |-> NilErr]

\* A wait loop of LoopSpec before the call, and the two of them.
IdleLoop == [pc |-> "idle", i |-> 0, probes |-> 0, sleeps |-> 0, ret |-> NoRet]
NoPair == [n |-> 0, outcomes |-> <<>>, prod |-> IdleLoop, mock |-> IdleLoop]

\* The arguments of Execute; NoArgs outside Execute.
NoArgs == [statement |-> "", async |-> FALSE, opts |-> NilOpts]

\* The callers of ConcSpec, each with a statement handle of its own, and what
\* a caller holds between two calls.  mixed is history: the caller probed
\* while the other caller was inside WaitUntilComplete.
Callers == {"c1", "c2"}
HandleOf == [c1 |-> "h1", c2 |-> "h2"]
IdleCaller ==
    [op |-> "none", pc |-> "idle", handle |-> "", maxRetries |-> 0, i |-> 0,
     polls |-> <<>>, xs |-> <<>>, sleeps |-> 0, ret |-> NoRet, mixed |-> FALSE]

\* The exchanges of ConcSpec: one of each kind of answer.
ConcExchanges ==
    {x \in Exchanges :
        \/ x.neterr = "network error"
        \/ x.neterr = "" /\ ~x.decodes /\ x.status = 500
        \/ x.neterr = "" /\ x.decodes
              /\ <<x.status, x.body>> \in {<<StatusOK, OkBody>>,
                                            <<StatusAccepted, RunBody>>,
                                            <<StatusUnprocessableEntity, FailBody>>,
                                            <<404, EmptyBody>>}}

----------------------------------------------------------------------------
(* Strings *)

\* The upper-case form of each lower-case letter.
UpperOf ==
    [a |-> "A", b |-> "B", c |-> "C", d |-> "D", e |-> "E", f |-> "F", g |-> "G",
     h |-> "H", i |-> "I", j |-> "J", k |-> "K", l |-> "L", m |-> "M", n |-> "N",
     o |-> "O", p |-> "P", q |-> "Q", r |-> "R", s |-> "S", t |-> "T", u |-> "U",
     v |-> "V", w |-> "W", x |-> "X", y |-> "Y", z |-> "Z"]

\* The characters of cs from the kth on, as one string.
RECURSIVE StrFrom(_, _)
StrFrom(cs, k) == IF k > Len(cs) THEN "" ELSE cs[k] \o StrFrom(cs, k + 1)

\* The characters of cs as one string.
Str(cs) == StrFrom(cs, 1)

\* strings.ToUpper, one character
ToUpperChar(c) == IF c \in DOMAIN UpperOf THEN UpperOf[c] ELSE c

\* strings.ToUpper
ToUpper(cs) == [k \in DOMAIN cs |-> ToUpperChar(cs[k])]

\* strings.ReplaceAll(cs, old, new) for one-character old and new
ReplaceAll(cs, old, new) == [k \in DOMAIN cs |-> IF cs[k] = old THEN new ELSE cs[k]]

\* strconv.FormatBool
FormatBool(b) == IF b THEN "true" ELSE "false"

----------------------------------------------------------------------------
(* internal/auth: GenerateJWT *)

\* parsePrivateKey: the PEM block, then PKCS#8, then the RSA type assertion.
parsePrivateKey(pemBytes) ==
    CASE pemBytes = "not_pem" -> Err("invalid PEM format for private key")
      [] pemBytes = "rsa_pkcs1" ->
            Err("x509: failed to parse private key (use ParsePKCS1PrivateKey instead for this key format)")
      [] pemBytes = "ec_pkcs8" -> Err("not an RSA private key")
      [] OTHER -> NilErr

\* fingerprint: the PEM block is hashed as it is; nothing parses it as a key.
fingerprint(pubPEM) ==
    IF pubPEM = "not_pem"
    THEN [fp |-> "", err |-> Err("invalid PEM for public key")]
    ELSE [fp |-> "SHA256:" \o "base64(sha256(" \o pubPEM \o "))", err |-> NilErr]

\* Mutant: the account is upper-cased and its periods are kept.
normalizeAccountUpperOnly(account) == ToUpper(account)

normalizeAccount(account) == ToUpper(ReplaceAll(account, ".", "-"))

\* token.SignedString: RS256 fails on a key too short for the digest.
SignedString(privKey) ==
    IF privKey = "rsa_pkcs8_short"
    THEN Err("crypto/rsa: message too long for RSA key size")
    ELSE NilErr

NoToken == [nil |-> TRUE, Issuer |-> "", Subject |-> "", Audience |-> ""]

\* GenerateJWT not called yet.
NotIssued == [called |-> FALSE, token |-> NoToken, err |-> NilErr]

\* GenerateJWT(cfg): the claims of the signed token, or the error.
GenerateJWT(cfg) ==
    LET perr == parsePrivateKey(cfg.PrivateKey)
        f == fingerprint(cfg.PublicKey)
        account == Str(normalizeAccount(cfg.Account))
        user == Str(ToUpper(cfg.User))
        serr == SignedString(cfg.PrivateKey)
    IN  IF ~perr.nil THEN [token |-> NoToken, err |-> perr]
        ELSE IF ~f.err.nil
        THEN [token |-> NoToken, err |-> Wrap("fingerprint generation failed: ", f.err)]
        ELSE IF ~serr.nil
        THEN [token |-> NoToken, err |-> Wrap("JWT signing failed: ", serr)]
        ELSE [token |-> [nil |-> FALSE,
                         Issuer |-> account \o "." \o user \o "." \o f.fp,
                         Subject |-> account \o "." \o user,
                         Audience |-> "snowflake"],
              err |-> NilErr]

----------------------------------------------------------------------------
(* snowapi: NewClient, authToken *)

\* NewClient's base URL
NewClientBaseURL(cfg) ==
    "https://" \o Str(cfg.Account) \o ".snowflakecomputing.com/api/v2/statements"

\* NewClient refuses an empty account or user.
NewClientAccepts(cfg) == cfg.Account # <<>> /\ cfg.User # <<>>

\* NewClient(cfg): the Client (its base URL, the timeout of its http.Client)
\* or the error.
NewClient(cfg) ==
    IF ~NewClientAccepts(cfg)
    THEN [nil |-> TRUE, baseURL |-> "", timeout |-> 0,
          err |-> Err("account and user are required")]
    ELSE [nil |-> FALSE, baseURL |-> NewClientBaseURL(cfg),
          timeout |-> IF cfg.HTTPTimeout = 0 THEN DefaultTimeout ELSE cfg.HTTPTimeout,
          err |-> NilErr]

\* Client.authToken: a credential from the client's own config.
authToken == GenerateJWT(config)

\* Mutant: the call keeps the number of its first credential.
FirstIssuance(n) == 1

\* Every c.authToken() makes a new token: the one after the n issued so far.
NextIssuance(n) == n + 1

\* A request and the headers every request carries; params are the query
\* parameters in its URL, and issuance tells which issuance of the call made
\* the token (the first, the second, ...).
Request(method, url, params, token, issuance, body) ==
    [method |-> method, url |-> url, params |-> params, Authorization |-> "Bearer",
     token |-> token, issuance |-> issuance, ContentType |-> "application/json",
     Accept |-> "application/json", body |-> body]

\* A URL without query parameters.
NoParams == [k \in {} |-> ""]

----------------------------------------------------------------------------
(* snowapi: Execute *)

\* Mutant: retry is asked for only when the caller set it to true.
RetryOnlyWhenSet(opts) == opts.Retry = "true"

\* if opts.Retry == nil || *opts.Retry
RetryWanted(opts) == opts.Retry = "nil" \/ opts.Retry = "true"

\* The url.Values Execute fills in.
ExecuteParams(async, opts) ==
    [async |-> FormatBool(async), nullable |-> "true"]
    @@ (IF ~opts.nil /\ opts.RequestID # ""
        THEN [requestId |-> opts.RequestID]
             @@ (IF RetryWanted(opts) THEN [retry |-> "true"] ELSE NoParams)
        ELSE NoParams)

\* The keys Execute uses, in the order url.Values.Encode writes them (sorted).
ParamOrder == <<"async", "nullable", "requestId", "retry">>

\* url.Values.Encode, from the kth key on.
RECURSIVE EncodeFrom(_, _, _)
EncodeFrom(params, k, sep) ==
    IF k > Len(ParamOrder) THEN ""
    ELSE IF ParamOrder[k] \in DOMAIN params
    THEN sep \o ParamOrder[k] \o "=" \o params[ParamOrder[k]]
         \o EncodeFrom(params, k + 1, "&")
    ELSE EncodeFrom(params, k + 1, sep)

\* url.Values.Encode
Encode(params) == EncodeFrom(params, 1, "")

\* The query string of Execute's URL.
ExecuteQuery(async, opts) == Encode(ExecuteParams(async, opts))

\* json.Marshal of the QueryRequest
ExecuteBody(statement) ==
    "{\"statement\":\"" \o statement \o "\",\"timeout\":" \o ToString(Timeout)
    \o ",\"resultSetMetaData\":{\"format\":\"json\"}}"

\* Mutant: only the HTTP status tells an async response, not the body code.
IsAsyncByStatus(status, code) == status = StatusAccepted

\* Execute's "Check for async status".
IsAsync(status, code) == status = StatusAccepted \/ code = AsyncCode

\* Execute's reading of a decoded response.
ExecuteClassify(status, result) ==
    IF IsAsync(status, result.Code)
    THEN [resp |-> result, err |-> NilErr]
    ELSE IF status # StatusOK
    THEN [resp |-> NilResp,
          err |-> Err("API error: " \o result.Message \o " (code " \o result.Code \o ")")]
    ELSE [resp |-> result, err |-> NilErr]

\* Execute(statement, async, opts) when the transport produces exchange x:
\* what it returns, the credentials it issued and the requests it sent.
Execute(statement, async, opts, x) ==
    LET fullURL == baseURL \o "?" \o ExecuteQuery(async, opts)
        tok == authToken
        req == Request("POST", fullURL, ExecuteParams(async, opts), tok.token,
                       NextIssuance(issued), ExecuteBody(statement))
    IN  IF ~tok.err.nil
        THEN [resp |-> NilResp, err |-> Wrap("failed to generate auth token: ", tok.err),
              issued |-> 0, sent |-> <<>>, xs |-> <<>>]
        ELSE IF x.neterr # ""
        THEN [resp |-> NilResp, err |-> Err("failed to send request: " \o x.neterr),
              issued |-> 1, sent |-> <<req>>, xs |-> <<x>>]
        ELSE IF ~x.decodes
        THEN [resp |-> NilResp, err |-> Err("failed to decode response: EOF"),
              issued |-> 1, sent |-> <<req>>, xs |-> <<x>>]
        ELSE ExecuteClassify(x.status, x.body)
             @@ [issued |-> 1, sent |-> <<req>>, xs |-> <<x>>]

\* What uuid.New().String() gives Query as request id.
UUIDs == {"7c9e6679-7425-40de-944b-e07fc1f90ae7",
          "16fd2706-8baf-433b-82eb-8c7fada847da"}

\* Query(statement) when uuid.New() gives reqID and the transport produces
\* exchange x: Execute with async = false, then the Data of whatever response
\* Execute returned without an error.
Query(statement, reqID, x) ==
    LET opts == [nil |-> FALSE, RequestID |-> reqID, Retry |-> "nil"]
        r == Execute(statement, FALSE, opts, x)
    IN  [rows |-> IF ~r.err.nil THEN <<>> ELSE r.resp.Data,
         err |-> r.err, opts |-> opts,
         issued |-> r.issued, sent |-> r.sent, xs |-> r.xs]

----------------------------------------------------------------------------
(* snowapi: Poll *)

\* Mutant: the status is dropped when the body does not decode.
StatusDropped(status) == 0

\* The status Poll returns with its decode error: resp.StatusCode.
StatusOnDecodeError(status) == status

\* Mutant: a statement that is still running is an error of the probe.
PollRunningFails(x) ==
    IF x.status = StatusAccepted
    THEN [resp |-> NilResp, status |-> x.status, err |-> Err("statement is running")]
    ELSE [resp |-> x.body, status |-> x.status, err |-> NilErr]

\* return &result, resp.StatusCode, nil: whatever the status is.
PollDecoded(x) == [resp |-> x.body, status |-> x.status, err |-> NilErr]

\* Poll(handle, partition) when the transport produces exchange x.
Poll(h, partition, x) ==
    LET endpoint == IF partition > 0
                    THEN baseURL \o "/" \o h \o "?partition=" \o ToString(partition)
                    ELSE baseURL \o "/" \o h
        params == IF partition > 0
                  THEN [partition |-> ToString(partition)]
                  ELSE NoParams
        tok == authToken
        req == Request("GET", endpoint, params, tok.token, NextIssuance(issued), "")
    IN  IF ~tok.err.nil
        THEN [resp |-> NilResp, status |-> 0,
              err |-> Wrap("failed to generate auth token: ", tok.err),
              issued |-> 0, sent |-> <<>>, xs |-> <<>>]
        ELSE IF x.neterr # ""
        THEN [resp |-> NilResp, status |-> 0,
              err |-> Err("poll request failed: " \o x.neterr),
              issued |-> 1, sent |-> <<req>>, xs |-> <<x>>]
        ELSE IF ~x.decodes
        THEN [resp |-> NilResp, status |-> StatusOnDecodeError(x.status),
              err |-> Err("failed to decode poll response: EOF"),
              issued |-> 1, sent |-> <<req>>, xs |-> <<x>>]
        ELSE PollDecoded(x) @@ [issued |-> 1, sent |-> <<req>>, xs |-> <<x>>]

\* What the caller of Poll gets: (*QueryResponse, int, error).
PollResult(p) == [resp |-> p.resp, status |-> p.status, err |-> p.err]

----------------------------------------------------------------------------
(* snowapi: Cancel *)

\* Mutant: every status the client names as not failed counts as cancelled.
CancelOKOrAccepted(status) == status \in {StatusOK, StatusAccepted}

\* if resp.StatusCode != http.StatusOK, negated
CancelOK(status) == status = StatusOK

\* Cancel's reading of a response: nil on 200, else the error body's message
\* and code, or the bare status when the body does not decode.
CancelClassify(x) ==
    IF ~CancelOK(x.status)
    THEN IF ~x.decodes
         THEN Err("cancel failed with status " \o ToString(x.status))
         ELSE Err("cancel failed: " \o x.body.Message \o " (code " \o x.body.Code
                  \o ")")
    ELSE NilErr

\* Cancel(statementHandle) when the transport produces exchange x.
Cancel(h, x) ==
    LET tok == authToken
        cancelURL == baseURL \o "/" \o h \o "/cancel"
        req == Request("POST", cancelURL, NoParams, tok.token, NextIssuance(issued),
                       "{}")
    IN  IF ~tok.err.nil
        THEN [err |-> Wrap("failed to generate auth token: ", tok.err),
              issued |-> 0, sent |-> <<>>, xs |-> <<>>]
        ELSE IF x.neterr # ""
        THEN [err |-> Err("cancel request failed: " \o x.neterr),
              issued |-> 1, sent |-> <<req>>, xs |-> <<x>>]
        ELSE [err |-> CancelClassify(x), issued |-> 1, sent |-> <<req>>,
              xs |-> <<x>>]

----------------------------------------------------------------------------
(* snowapi: WaitUntilComplete *)

\* Mutants of the loop condition: one attempt too few, one too many.
LoopCondEarly(k, n) == k + 1 < n
LoopCondLate(k, n) == k <= n

\* Mutant: the body runs once before the condition is tested.
LoopCondAtLeastOnce(k, n) == k < n \/ k = 0

\* for i := 0; i < maxRetries; i++
LoopCond(k, n) == k < n

\* Mutant: the error of Poll is not looked at.
PollFailedIgnored(p) == FALSE

\* if err != nil { return nil, err }
PollFailed(p) == ~p.err.nil

\* case http.StatusOK
CaseOK(status) == status = StatusOK

\* Mutant: every status that is neither 200 nor 422 is waited on.
CaseAcceptedOrUnknown(status) ==
    status # StatusOK /\ status # StatusUnprocessableEntity

\* case http.StatusAccepted
CaseAccepted(status) == status = StatusAccepted

\* Mutant: the execution-failed case tests for 400 instead of 422.
CaseBadRequest(status) == status = 400

\* case http.StatusUnprocessableEntity
CaseUnprocessable(status) == status = StatusUnprocessableEntity

\* Mutant: the loop counter is not advanced.
NextIStuck(k) == k

\* i++
NextI(k) == k + 1

MaxRetriesExceeded == Err("max retries exceeded while waiting for completion")

\* The loop body after the Poll: where it goes and what it returns.
WaitSwitch(p) ==
    IF PollFailed(p)
    THEN [pc |-> "done", ret |-> [resp |-> NilResp, err |-> p.err]]
    ELSE IF CaseOK(p.status)
    THEN [pc |-> "done", ret |-> [resp |-> p.resp, err |-> NilErr]]
    ELSE IF CaseAccepted(p.status)
    THEN [pc |-> "sleep", ret |-> NoRet]
    ELSE IF CaseUnprocessable(p.status)
    THEN [pc |-> "done",
          ret |-> [resp |-> NilResp,
                   err |-> Err("query execution failed: " \o p.resp.Message
                               \o " (code " \o p.resp.Code \o ")")]]
    ELSE [pc |-> "done",
          ret |-> [resp |-> NilResp,
                   err |-> Err("unexpected status " \o ToString(p.status) \o ": "
                               \o p.resp.Message)]]

----------------------------------------------------------------------------
(* snowapi tests: mockClient.WaitUntilComplete *)

\* http.StatusText
StatusText(status) ==
    CASE status = 200 -> "OK"
      [] status = 202 -> "Accepted"
      [] status = 404 -> "Not Found"
      [] status = 422 -> "Unprocessable Entity"
      [] status = 500 -> "Internal Server Error"
      [] OTHER -> ""

\* The loop body of mockClient.WaitUntilComplete after m.pollFunc: where it
\* goes and what it returns.
MockSwitch(p) ==
    IF ~p.err.nil
    THEN [pc |-> "done", ret |-> [resp |-> NilResp, err |-> p.err]]
    ELSE IF p.status = StatusOK
    THEN [pc |-> "done", ret |-> [resp |-> p.resp, err |-> NilErr]]
    ELSE IF p.status = StatusAccepted
    THEN [pc |-> "sleep", ret |-> NoRet]
    ELSE IF p.status = StatusUnprocessableEntity
    THEN [pc |-> "done",
          ret |-> [resp |-> NilResp,
                   err |-> Err("query execution failed: " \o p.resp.Message
                               \o " (code " \o p.resp.Code \o ")")]]
    ELSE [pc |-> "done",
          ret |-> [resp |-> NilResp,
                   err |-> Err("unexpected status " \o StatusText(p.status) \o ": "
                               \o p.resp.Message)]]

\* What a probe gives a wait loop: (resp, status, err) as Poll returns them and
\* as the pollFunc of the tests returns them.  A nil resp with a nil error is
\* left out: Poll never returns it, and both loops dereference it alike.
ProbeOutcomes ==
    {[resp |-> b, status |-> st, err |-> NilErr] :
        b \in {OkBody, RunBody, FailBody}, st \in Statuses}
    \cup {[resp |-> NilResp, status |-> 0, err |-> Err("network error")],
          [resp |-> NilResp, status |-> 500,
           err |-> Err("failed to decode poll response: EOF")]}

----------------------------------------------------------------------------
(* The state machine *)

Init ==
    /\ config \in {cfg \in Configs : NewClientAccepts(cfg)}
    /\ baseURL = NewClientBaseURL(config)
    /\ op = "none"
    /\ pc = "idle"
    /\ handle = ""
    /\ maxRetries = 0
    /\ i = 0
    /\ polls = <<>>
    /\ sleeps = 0
    /\ xs = <<>>
    /\ sent = <<>>
    /\ issued = 0
    /\ ret = NoRet
    /\ args = NoArgs
    /\ cancelled = ""
    /\ conc = [c \in Callers |-> IdleCaller]
    /\ jwt = [cfg |-> config, out |-> NotIssued]
    /\ rows = <<>>
    /\ newc = NoNewClient
    /\ pair = NoPair

\* The caller runs Execute: one request, one response.
CallExecute ==
    /\ pc = "idle"
    /\ \E statement \in Statements, async \in BOOLEAN, opts \in Options,
          x \in Exchanges :
          \E r \in {Execute(statement, async, opts, x)} :
              /\ ret' = [resp |-> r.resp, err |-> r.err]
              /\ issued' = r.issued
              /\ sent' = r.sent
              /\ xs' = r.xs
              /\ args' = [statement |-> statement, async |-> async, opts |-> opts]
    /\ op' = "Execute"
    /\ pc' = "done"
    /\ UNCHANGED <<config, baseURL, handle, maxRetries, i, polls, sleeps,
                   cancelled>>
    /\ UNCHANGED rows
    /\ UNCHANGED others

\* The caller runs Query: one request, one response.
CallQuery ==
    /\ pc = "idle"
    /\ \E statement \in Statements, reqID \in UUIDs, x \in Exchanges :
          \E q \in {Query(statement, reqID, x)} :
              /\ rows' = q.rows
              /\ ret' = [resp |-> NilResp, err |-> q.err]
              /\ issued' = q.issued
              /\ sent' = q.sent
              /\ xs' = q.xs
              /\ args' = [statement |-> statement, async |-> FALSE, opts |-> q.opts]
    /\ op' = "Query"
    /\ pc' = "done"
    /\ UNCHANGED <<config, baseURL, handle, maxRetries, i, polls, sleeps,
                   cancelled>>
    /\ UNCHANGED others

\* The caller runs Poll: one probe.
CallPoll ==
    /\ pc = "idle"
    /\ \E h \in Handles, partition \in 0..1, x \in Exchanges :
          \E p \in {Poll(h, partition, x)} :
              /\ handle' = h
              /\ polls' = <<PollResult(p)>>
              /\ ret' = [resp |-> p.resp, err |-> p.err]
              /\ issued' = p.issued
              /\ sent' = p.sent
              /\ xs' = p.xs
    /\ op' = "Poll"
    /\ pc' = "done"
    /\ UNCHANGED <<config, baseURL, maxRetries, i, sleeps, args, cancelled>>
    /\ UNCHANGED rows
    /\ UNCHANGED others

\* The caller runs Cancel: one request, one response.
CallCancel ==
    /\ pc = "idle"
    /\ \E h \in Handles, x \in Exchanges :
          \E r \in {Cancel(h, x)} :
              /\ handle' = h
              /\ ret' = [resp |-> NilResp, err |-> r.err]
              /\ issued' = r.issued
              /\ sent' = r.sent
              /\ xs' = r.xs
    /\ op' = "Cancel"
    /\ pc' = "done"
    /\ UNCHANGED <<config, baseURL, maxRetries, i, polls, sleeps, args, cancelled>>
    /\ UNCHANGED rows
    /\ UNCHANGED others

\* The caller enters WaitUntilComplete(handle, interval, maxRetries): i := 0.
CallWaitUntilComplete ==
    /\ pc = "idle"
    /\ \E h \in Handles, n \in Attempts :
          /\ handle' = h
          /\ maxRetries' = n
    /\ i' = 0
    /\ op' = "WaitUntilComplete"
    /\ pc' = "loop"
    /\ UNCHANGED <<config, baseURL, polls, sleeps, xs, sent, issued, ret, args,
                   cancelled>>
    /\ UNCHANGED rows
    /\ UNCHANGED others

\* The loop condition: into the body, or out of the loop to the final return.
WaitLoop ==
    /\ pc = "loop"
    /\ IF LoopCond(i, maxRetries)
       THEN pc' = "poll" /\ ret' = ret
       ELSE pc' = "done" /\ ret' = [resp |-> NilResp, err |-> MaxRetriesExceeded]
    /\ UNCHANGED <<config, baseURL, op, handle, maxRetries, i, polls, sleeps, xs,
                   sent, issued, args, cancelled>>
    /\ UNCHANGED rows
    /\ UNCHANGED others

\* The loop body: c.Poll(handle, 0), then the switch on its status.
WaitPoll ==
    /\ pc = "poll"
    /\ \E x \in Exchanges :
          \E p \in {Poll(handle, 0, x)} :
          \E w \in {WaitSwitch(PollResult(p))} :
              /\ polls' = Append(polls, PollResult(p))
              /\ issued' = issued + p.issued
              /\ sent' = sent \o p.sent
              /\ xs' = xs \o p.xs
              /\ pc' = w.pc
              /\ ret' = w.ret
    /\ UNCHANGED <<config, baseURL, op, handle, maxRetries, i, sleeps, args,
                   cancelled>>
    /\ UNCHANGED rows
    /\ UNCHANGED others

\* time.Sleep(interval), then i++.
WaitSleep ==
    /\ pc = "sleep"
    /\ sleeps' = sleeps + 1
    /\ i' = NextI(i)
    /\ pc' = "loop"
    /\ UNCHANGED <<config, baseURL, op, handle, maxRetries, polls, xs, sent,
                   issued, ret, args, cancelled>>
    /\ UNCHANGED rows
    /\ UNCHANGED others

\* The operation has returned; the caller is free to call again.  The client
\* keeps its config and base URL, the histories of the call are dropped, and
\* the next call knows whether a Cancel came just before it.
Return ==
    /\ pc = "done"
    /\ op' = "none"
    /\ pc' = "idle"
    /\ handle' = ""
    /\ maxRetries' = 0
    /\ i' = 0
    /\ polls' = <<>>
    /\ sleeps' = 0
    /\ xs' = <<>>
    /\ sent' = <<>>
    /\ issued' = 0
    /\ ret' = NoRet
    /\ args' = NoArgs
    /\ cancelled' = IF op # "Cancel" THEN ""
                    ELSE IF ret.err.nil THEN "accepted" ELSE "rejected"
    /\ rows' = <<>>
    /\ UNCHANGED <<config, baseURL>>
    /\ UNCHANGED others

Next ==
    \/ CallExecute
    \/ CallQuery
    \/ CallPoll
    \/ CallCancel
    \/ CallWaitUntilComplete
    \/ WaitLoop
    \/ WaitPoll
    \/ WaitSleep
    \/ Return

Spec == Init /\ [][Next]_vars

----------------------------------------------------------------------------
(* ConcSpec: the callers of Callers share the Client, each on its own handle *)

\* Mutant: the loop counter is a field of the shared Client.
SharedCounter(c) == conc["c1"].i

\* The loop counter i of caller c: a local variable of its call.
LoopCounter(c) == conc[c].i

\* The other caller is inside the loop of WaitUntilComplete.
OtherInLoop(c) == \E d \in Callers \ {c} : conc[d].pc \in {"loop", "poll", "sleep"}

ConcInit ==
    /\ config \in {cfg \in Configs : NewClientAccepts(cfg)}
    /\ baseURL = NewClientBaseURL(config)
    /\ conc = [c \in Callers |-> IdleCaller]
    /\ op = "none"
    /\ pc = "idle"
    /\ handle = ""
    /\ maxRetries = 0
    /\ i = 0
    /\ polls = <<>>
    /\ sleeps = 0
    /\ xs = <<>>
    /\ sent = <<>>
    /\ issued = 0
    /\ ret = NoRet
    /\ args = NoArgs
    /\ cancelled = ""
    /\ jwt = [cfg |-> config, out |-> NotIssued]
    /\ rows = <<>>
    /\ newc = NoNewClient
    /\ pair = NoPair

\* What a step of a caller leaves alone: the Client and the single caller.
ConcFrame ==
    UNCHANGED <<config, baseURL, op, pc, handle, maxRetries, i, polls, sleeps, xs,
                sent, issued, ret, args, cancelled, rows, jwt, newc, pair>>

ConcExecute(c) ==
    /\ conc[c].pc = "idle"
    /\ \E x \in ConcExchanges :
          \E r \in {Execute("SELECT 1", TRUE, NilOpts, x)} :
              conc' = [conc EXCEPT ![c] =
                          [@ EXCEPT !.op = "Execute", !.pc = "done", !.xs = r.xs,
                                    !.ret = [resp |-> r.resp, err |-> r.err]]]
    /\ ConcFrame

ConcPoll(c) ==
    /\ conc[c].pc = "idle"
    /\ \E x \in ConcExchanges :
          \E p \in {Poll(HandleOf[c], 0, x)} :
              conc' = [conc EXCEPT ![c] =
                          [@ EXCEPT !.op = "Poll", !.pc = "done",
                                    !.handle = HandleOf[c],
                                    !.polls = <<PollResult(p)>>, !.xs = p.xs,
                                    !.ret = [resp |-> p.resp, err |-> p.err]]]
    /\ ConcFrame

ConcCancel(c) ==
    /\ conc[c].pc = "idle"
    /\ \E x \in ConcExchanges :
          \E r \in {Cancel(HandleOf[c], x)} :
              conc' = [conc EXCEPT ![c] =
                          [@ EXCEPT !.op = "Cancel", !.pc = "done",
                                    !.handle = HandleOf[c], !.xs = r.xs,
                                    !.ret = [resp |-> NilResp, err |-> r.err]]]
    /\ ConcFrame

ConcWaitUntilComplete(c) ==
    /\ conc[c].pc = "idle"
    /\ \E n \in (0 - 1)..ConcAttempts :
          conc' = [conc EXCEPT ![c] =
                      [@ EXCEPT !.op = "WaitUntilComplete", !.pc = "loop",
                                !.handle = HandleOf[c], !.maxRetries = n, !.i = 0]]
    /\ ConcFrame

ConcWaitLoop(c) ==
    /\ conc[c].pc = "loop"
    /\ conc' = [conc EXCEPT ![c] =
                    IF LoopCond(LoopCounter(c), conc[c].maxRetries)
                    THEN [@ EXCEPT !.pc = "poll"]
                    ELSE [@ EXCEPT !.pc = "done",
                                   !.ret = [resp |-> NilResp,
                                            err |-> MaxRetriesExceeded]]]
    /\ ConcFrame

ConcWaitPoll(c) ==
    /\ conc[c].pc = "poll"
    /\ \E x \in ConcExchanges :
          \E p \in {Poll(conc[c].handle, 0, x)} :
          \E w \in {WaitSwitch(PollResult(p))} :
              conc' = [conc EXCEPT ![c] =
                          [@ EXCEPT !.polls = Append(@, PollResult(p)),
                                    !.xs = @ \o p.xs,
                                    !.pc = w.pc, !.ret = w.ret,
                                    !.mixed = @ \/ OtherInLoop(c)]]
    /\ ConcFrame

ConcWaitSleep(c) ==
    /\ conc[c].pc = "sleep"
    /\ conc' = [conc EXCEPT ![c] =
                    [@ EXCEPT !.sleeps = @ + 1, !.i = NextI(LoopCounter(c)),
                              !.pc = "loop"]]
    /\ ConcFrame

ConcReturn(c) ==
    /\ conc[c].pc = "done"
    /\ conc' = [conc EXCEPT ![c] = IdleCaller]
    /\ ConcFrame

ConcNext ==
    \E c \in Callers :
        \/ ConcExecute(c)
        \/ ConcPoll(c)
        \/ ConcCancel(c)
        \/ ConcWaitUntilComplete(c)
        \/ ConcWaitLoop(c)
        \/ ConcWaitPoll(c)
        \/ ConcWaitSleep(c)
        \/ ConcReturn(c)

ConcSpec == ConcInit /\ [][ConcNext]_vars

----------------------------------------------------------------------------
(* JWTSpec: auth.GenerateJWT called on a TokenConfig *)

JWTInit ==
    /\ jwt \in {[cfg |-> c, out |-> NotIssued] : c \in TokenConfigs}
    /\ config = jwt.cfg
    /\ baseURL = ""
    /\ op = "none"
    /\ pc = "idle"
    /\ handle = ""
    /\ maxRetries = 0
    /\ i = 0
    /\ polls = <<>>
    /\ sleeps = 0
    /\ xs = <<>>
    /\ sent = <<>>
    /\ issued = 0
    /\ ret = NoRet
    /\ args = NoArgs
    /\ cancelled = ""
    /\ rows = <<>>
    /\ conc = [c \in Callers |-> IdleCaller]
    /\ newc = NoNewClient
    /\ pair = NoPair

\* GenerateJWT(cfg) returns the token or the error.
IssueToken ==
    /\ ~jwt.out.called
    /\ \E r \in {GenerateJWT(jwt.cfg)} :
          jwt' = [jwt EXCEPT !.out = [called |-> TRUE, token |-> r.token,
                                      err |-> r.err]]
    /\ UNCHANGED <<config, baseURL, op, pc, handle, maxRetries, i, polls, sleeps,
                   xs, sent, issued, ret, args, cancelled, rows, conc, newc,
                   pair>>

JWTNext == IssueToken

JWTSpec == JWTInit /\ [][JWTNext]_vars

----------------------------------------------------------------------------
(* NewClientSpec: NewClient called on a Config *)

\* The single caller of Spec before its first call.
CallerIdle ==
    /\ op = "none"
    /\ pc = "idle"
    /\ handle = ""
    /\ maxRetries = 0
    /\ i = 0
    /\ polls = <<>>
    /\ sleeps = 0
    /\ xs = <<>>
    /\ sent = <<>>
    /\ issued = 0
    /\ ret = NoRet
    /\ args = NoArgs
    /\ cancelled = ""
    /\ rows = <<>>

\* No Client yet: the variables of a Client hold nothing.
NoClientYet ==
    [Account |-> <<>>, User |-> <<>>, PrivateKey |-> "not_pem",
     PublicKey |-> "not_pem"]

NewClientInit ==
    /\ newc \in {[cfg |-> c, out |-> NotConstructed] : c \in DocConfigs}
    /\ config = NoClientYet
    /\ baseURL = ""
    /\ CallerIdle
    /\ conc = [c \in Callers |-> IdleCaller]
    /\ jwt = [cfg |-> config, out |-> NotIssued]
    /\ pair = NoPair

\* NewClient(cfg) returns the Client or the error.
CallNewClient ==
    /\ ~newc.out.called
    /\ \E r \in {NewClient(newc.cfg)} :
          newc' = [newc EXCEPT !.out = [called |-> TRUE, nil |-> r.nil,
                                       baseURL |-> r.baseURL,
                                       timeout |-> r.timeout, err |-> r.err]]
    /\ UNCHANGED <<config, baseURL, op, pc, handle, maxRetries, i, polls, sleeps,
                   xs, sent, issued, ret, args, cancelled, rows, conc, jwt, pair>>

NewClientNext == CallNewClient

NewClientSpec == NewClientInit /\ [][NewClientNext]_vars

----------------------------------------------------------------------------
(* LoopSpec: Client.WaitUntilComplete ("prod") and mockClient.WaitUntilComplete *)
(* ("mock") called with the same maxRetries and given the same probes: the  *)
(* kth probe of either loop gets the kth outcome of pair.outcomes.          *)

Sides == {"prod", "mock"}

\* The switch of a side.
SwitchOf(side, p) == IF side = "prod" THEN WaitSwitch(p) ELSE MockSwitch(p)

LoopInit ==
    /\ pair = NoPair
    /\ config = NoClientYet
    /\ baseURL = ""
    /\ CallerIdle
    /\ conc = [c \in Callers |-> IdleCaller]
    /\ jwt = [cfg |-> config, out |-> NotIssued]
    /\ newc = NoNewClient

\* What a step of the two loops leaves alone.
LoopFrame ==
    UNCHANGED <<config, baseURL, op, pc, handle, maxRetries, i, polls, sleeps, xs,
                sent, issued, ret, args, cancelled, rows, conc, jwt, newc>>

\* Both loops are entered with the same maxRetries: i := 0.
PairCall ==
    /\ pair.prod.pc = "idle" /\ pair.mock.pc = "idle"
    /\ \E n \in Attempts :
          pair' = [n |-> n, outcomes |-> <<>>,
                   prod |-> [IdleLoop EXCEPT !.pc = "loop"],
                   mock |-> [IdleLoop EXCEPT !.pc = "loop"]]
    /\ LoopFrame

\* for i := 0; i < maxRetries; i++, the same in both loops.
PairLoop(side) ==
    /\ pair[side].pc = "loop"
    /\ pair' = [pair EXCEPT ![side] =
                    IF LoopCond(pair[side].i, pair.n)
                    THEN [@ EXCEPT !.pc = "poll"]
                    ELSE [@ EXCEPT !.pc = "done",
                                   !.ret = [resp |-> NilResp,
                                            err |-> MaxRetriesExceeded]]]
    /\ LoopFrame

\* The probe and the switch: the outcome the other loop got for this probe, or
\* a new one when this loop probes first.
PairPoll(side) ==
    /\ pair[side].pc = "poll"
    /\ \E p \in (IF pair[side].probes < Len(pair.outcomes)
                  THEN {pair.outcomes[pair[side].probes + 1]}
                  ELSE ProbeOutcomes) :
          \E w \in {SwitchOf(side, p)} :
              pair' = [pair EXCEPT
                          !.outcomes = IF pair[side].probes < Len(@)
                                       THEN @ ELSE Append(@, p),
                          ![side] = [@ EXCEPT !.probes = @ + 1, !.pc = w.pc,
                                              !.ret = w.ret]]
    /\ LoopFrame

\* time.Sleep(interval), then i++, the same in both loops.
PairSleep(side) ==
    /\ pair[side].pc = "sleep"
    /\ pair' = [pair EXCEPT ![side] =
                    [@ EXCEPT !.sleeps = @ + 1, !.i = NextI(@), !.pc = "loop"]]
    /\ LoopFrame

\* Both loops have returned.
PairReturn ==
    /\ pair.prod.pc = "done" /\ pair.mock.pc = "done"
    /\ pair' = NoPair
    /\ LoopFrame

LoopNext ==
    \/ PairCall
    \/ PairReturn
    \/ \E side \in Sides :
          \/ PairLoop(side)
          \/ PairPoll(side)
          \/ PairSleep(side)

LoopSpec == LoopInit /\ [][LoopNext]_vars

\* Every probe returns and every sleep ends: the loop of WaitUntilComplete
\* keeps taking its steps.
FairSpec == Spec /\ WF_vars(WaitLoop) /\ WF_vars(WaitPoll) /\ WF_vars(WaitSleep)

----------------------------------------------------------------------------
(* Vocabulary of the properties *)

InWait == op = "WaitUntilComplete"
Returned == pc = "done"
NumProbes == Len(polls)
LastPoll == polls[Len(polls)]

\* A probe reported "still running": Poll returned HTTP 202 and no error.
StillRunning(p) == p.err.nil /\ p.status = StatusAccepted
\* A probe reported success: Poll returned HTTP 200 and no error.
Succeeded(p) == p.err.nil /\ p.status = StatusOK

\* The first n probes all reported "still running".
RunningUpTo(n) == \A k \in 1..n : StillRunning(polls[k])

\* The budget of probes a maxRetries gives: none when it is not positive.
Budget == IF maxRetries > 0 THEN maxRetries ELSE 0

\* C1: for every k < maxRetries, k probes reporting "still running" (202) and
\* then one reporting success (200) make WaitUntilComplete return that response
\* and a nil error after exactly k+1 probes; it has not returned before them and
\* it probes no more.
C1_RunningThenSuccess ==
    InWait =>
        /\ (RunningUpTo(NumProbes) /\ NumProbes < maxRetries => ~Returned)
        /\ (/\ NumProbes >= 1
            /\ NumProbes <= maxRetries
            /\ RunningUpTo(NumProbes - 1)
            /\ Succeeded(LastPoll)
            => /\ Returned
               /\ ret = [resp |-> LastPoll.resp, err |-> NilErr]
               /\ ~ret.resp.nil
               /\ sleeps = NumProbes - 1)

\* MaxAttempts - 1 probes said "still running", the last said success, and
\* WaitUntilComplete returned it.
C1_Witness ==
    /\ InWait /\ Returned
    /\ maxRetries = MaxAttempts
    /\ NumProbes = MaxAttempts
    /\ RunningUpTo(NumProbes - 1)
    /\ Succeeded(LastPoll)
    /\ ret.resp = OkBody

\* C2: with maxRetries = n >= 1 and every probe reporting "still running",
\* WaitUntilComplete never makes an (n+1)th probe, and when it returns it has
\* made exactly n probes and returns "max retries exceeded while waiting for
\* completion" with no result.
C2_ExhaustedAfterExactlyN ==
    InWait /\ maxRetries >= 1 /\ RunningUpTo(NumProbes) =>
        /\ NumProbes <= maxRetries
        /\ (pc = "poll" => NumProbes < maxRetries)
        /\ (Returned => /\ NumProbes = maxRetries
                        /\ ret = [resp |-> NilResp, err |-> MaxRetriesExceeded])

\* MaxAttempts probes all said "still running" and the call returned.
C2_Witness ==
    /\ InWait /\ Returned
    /\ maxRetries = MaxAttempts
    /\ NumProbes = MaxAttempts
    /\ RunningUpTo(NumProbes)
    /\ ret.err = MaxRetriesExceeded

\* C3: a probe that returns HTTP 422 ends WaitUntilComplete at once: it has
\* returned, with no result and an error, without a sleep after that probe;
\* when the 422 came with a decoded body the error is "query execution failed:
\* <message> (code <code>)" with that body's message and code.
C3_ExecutionFailedReturnsAtOnce ==
    InWait /\ NumProbes >= 1 /\ LastPoll.status = StatusUnprocessableEntity =>
        /\ Returned
        /\ ret.resp = NilResp
        /\ ~ret.err.nil
        /\ sleeps = NumProbes - 1
        /\ (LastPoll.err.nil =>
                ret.err = Err("query execution failed: " \o LastPoll.resp.Message
                              \o " (code " \o LastPoll.resp.Code \o ")"))

\* A second probe answered 422 with message "execution error" and code "422".
C3_Witness ==
    /\ InWait /\ Returned
    /\ NumProbes = 2
    /\ LastPoll.err.nil
    /\ LastPoll.status = StatusUnprocessableEntity
    /\ LastPoll.resp = FailBody
    /\ ret.err = Err("query execution failed: execution error (code 422)")

\* C4: a probe that fails with an error (the transport's, on the first probe or
\* a later one) ends WaitUntilComplete at once: it has returned exactly the
\* error Poll returned and no result, without a sleep after that probe; the
\* outcome is neither a success nor "max retries exceeded".
C4_ProbeErrorReturnsAtOnce ==
    InWait /\ NumProbes >= 1 /\ ~LastPoll.err.nil =>
        /\ Returned
        /\ ret = [resp |-> NilResp, err |-> LastPoll.err]
        /\ ret.err # MaxRetriesExceeded
        /\ sleeps = NumProbes - 1

\* The transport failed on a probe after the first.
C4_Witness ==
    /\ InWait /\ Returned
    /\ NumProbes = 2
    /\ Len(xs) = 2
    /\ xs[2].neterr = "network error"
    /\ ret.err = Err("poll request failed: network error")

\* C5: a probe that returns, with no error, a status other than 200, 202 and
\* 422 ends WaitUntilComplete at once: it has returned no result and the error
\* "unexpected status <status>: <message>", without a sleep after that probe.
C5_UnexpectedStatusReturnsAtOnce ==
    InWait /\ NumProbes >= 1 /\ LastPoll.err.nil
           /\ LastPoll.status \notin {StatusOK, StatusAccepted, StatusUnprocessableEntity} =>
        /\ Returned
        /\ ret = [resp |-> NilResp,
                  err |-> Err("unexpected status " \o ToString(LastPoll.status)
                              \o ": " \o LastPoll.resp.Message)]
        /\ sleeps = NumProbes - 1

\* A second probe answered 404.
C5_Witness ==
    /\ InWait /\ Returned
    /\ NumProbes = 2
    /\ LastPoll.err.nil
    /\ LastPoll.status = 404
    /\ ret.err = Err("unexpected status 404: execution error")

\* WaitUntilComplete returned "max retries exceeded while waiting for completion".
Exhausted == Returned /\ ret.err = MaxRetriesExceeded

\* C6 as stated: every probe but the last reported "still running", and
\* WaitUntilComplete returns RetriesExhausted only after exactly maxRetries
\* probes that all reported "still running".
C6_Original ==
    InWait =>
        /\ RunningUpTo(NumProbes - 1)
        /\ (Exhausted => NumProbes = maxRetries /\ RunningUpTo(NumProbes))

\* C6, amended: every probe but the last reported "still running", and
\* WaitUntilComplete returns RetriesExhausted only after exactly
\* max(maxRetries, 0) probes that all reported "still running" (a negative
\* maxRetries makes no probe at all).
C6_OnlyRunningContinues ==
    InWait =>
        /\ RunningUpTo(NumProbes - 1)
        /\ (Exhausted => NumProbes = Budget /\ RunningUpTo(NumProbes))

\* A probe that was not "still running" ended the loop with budget left, after
\* earlier probes that were; the outcome is not RetriesExhausted.
C6_Witness ==
    /\ InWait /\ Returned
    /\ NumProbes >= 2
    /\ NumProbes < maxRetries
    /\ RunningUpTo(NumProbes - 1)
    /\ ~StillRunning(LastPoll)
    /\ ~ret.err.nil
    /\ ~Exhausted

\* C7: every sleep is followed by another probe, so a call that has returned
\* after p probes has slept fewer than p times (no sleep after the last probe),
\* and exactly p - 1 times when it returned a result.
C7_SleepOnlyBetweenProbes ==
    InWait /\ Returned =>
        /\ (sleeps > 0 => sleeps < NumProbes)
        /\ (ret.err.nil => sleeps = NumProbes - 1)

----------------------------------------------------------------------------
(* The outcomes of WaitUntilComplete *)

IsResult == ret.err.nil /\ ~ret.resp.nil
IsExhausted == ret.err = MaxRetriesExceeded
IsServiceError ==
    /\ NumProbes >= 1
    /\ ret.err = Err("query execution failed: " \o LastPoll.resp.Message
                     \o " (code " \o LastPoll.resp.Code \o ")")
IsUnexpectedStatus ==
    /\ NumProbes >= 1
    /\ ret.err = Err("unexpected status " \o ToString(LastPoll.status) \o ": "
                     \o LastPoll.resp.Message)
\* The error of the transport (http.Client.Do), as Poll wraps it.
IsTransportError ==
    /\ Len(xs) >= 1
    /\ xs[Len(xs)].neterr # ""
    /\ ret.err = Err("poll request failed: " \o xs[Len(xs)].neterr)
\* Any error Poll itself returned: transport, credential or decode failure.
IsPollError == NumProbes >= 1 /\ ~LastPoll.err.nil /\ ret.err = LastPoll.err

\* How many of the given conditions hold.
CountTrue(conds) == Cardinality({k \in DOMAIN conds : conds[k]})

InLoop == InWait /\ pc \in {"loop", "poll", "sleep"}

\* C8 as stated: a call that has returned made at most maxRetries probes and at
\* most maxRetries sleeps and ended in exactly one of: a result, a service
\* error, a transport error, an unexpected-status error, RetriesExhausted.
C8_Original ==
    InWait /\ Returned =>
        /\ NumProbes <= maxRetries
        /\ sleeps <= maxRetries
        /\ CountTrue(<<IsResult, IsServiceError, IsTransportError,
                       IsUnexpectedStatus, IsExhausted>>) = 1

\* The bounds and outcomes of the amended C8.
C8_Bounded ==
    InWait =>
        /\ NumProbes <= Budget
        /\ sleeps <= Budget
        /\ (Returned =>
                CountTrue(<<IsResult, IsServiceError, IsPollError,
                            IsUnexpectedStatus, IsExhausted>>) = 1)

\* C8, amended: when every probe returns and every sleep ends, WaitUntilComplete
\* returns, after at most max(maxRetries, 0) probes and at most
\* max(maxRetries, 0) sleeps, with exactly one of: a result, a service error,
\* the error of the probe (transport, credential or decode failure), an
\* unexpected-status error, RetriesExhausted.
C8_TerminatesWithinBudget == [](C8_Bounded) /\ (InLoop ~> Returned)

\* The whole budget was used: MaxAttempts probes and as many sleeps.
C8_Witness ==
    /\ InWait /\ Returned
    /\ maxRetries = MaxAttempts
    /\ NumProbes = MaxAttempts
    /\ sleeps = MaxAttempts
    /\ IsExhausted

----------------------------------------------------------------------------
(* Execute's classification *)

InExecute == op = "Execute"
\* Execute got a response whose body decodes.
ExecuteDecoded == InExecute /\ Returned /\ Len(xs) = 1 /\ xs[1].neterr = "" /\ xs[1].decodes

\* What C9 says of a decoded response x, but for the handle.
C9_Classified(x) ==
    IF x.status = 202 \/ x.body.Code = "333334"
    THEN ret = [resp |-> x.body, err |-> NilErr]
    ELSE IF x.status # 200
    THEN ret = [resp |-> NilResp,
                err |-> Err("API error: " \o x.body.Message \o " (code "
                            \o x.body.Code \o ")")]
    ELSE ret = [resp |-> x.body, err |-> NilErr]

\* C9 as stated: every decoded response is classified, and a response with
\* status 202 or body code "333334" is returned with a populated statement
\* handle.
C9_Original ==
    ExecuteDecoded =>
        /\ C9_Classified(xs[1])
        /\ (xs[1].status = 202 \/ xs[1].body.Code = "333334"
                => ret.resp.StatementHandle # "")

\* C9, amended: every decoded response is classified into exactly one outcome:
\* status 202 or body code "333334" returns the response with no error, with the
\* statement handle the body carried (empty when the body carried none);
\* otherwise a status other than 200 returns no result and the error "API
\* error: <message> (code <code>)"; otherwise the response is returned with no
\* error.
C9_ExecuteClassifies ==
    ExecuteDecoded =>
        /\ C9_Classified(xs[1])
        /\ (xs[1].status = 202 \/ xs[1].body.Code = "333334"
                => ret.resp.StatementHandle = xs[1].body.StatementHandle)

\* A response with a status other than 202 and the body code "333334" was
\* returned as the running result, handle included.
C9_Witness ==
    /\ ExecuteDecoded
    /\ xs[1].status = 404
    /\ xs[1].body = RunBody
    /\ ret = [resp |-> RunBody, err |-> NilErr]
    /\ ret.resp.StatementHandle = "h1"

\* A response is async-in-progress: status 202 or body code "333334".
AsyncInProgress(status, body) == status = 202 \/ body.Code = "333334"

\* C10: an async-in-progress response (status 202 or body code "333334", also on
\* a 200) is returned by Execute as the running result, and is waited on by
\* WaitUntilComplete: a probe that returned one with no error has not ended the
\* call, and a result WaitUntilComplete returned is a 200 that is not
\* async-in-progress.
C10_AsyncInProgressIsNotAResult ==
    /\ (ExecuteDecoded /\ AsyncInProgress(xs[1].status, xs[1].body)
            => ret = [resp |-> xs[1].body, err |-> NilErr])
    /\ (InWait /\ Returned /\ ret.err.nil
            => /\ LastPoll.status = 200
               /\ ~AsyncInProgress(LastPoll.status, ret.resp))
    /\ (InWait /\ NumProbes >= 1 /\ NumProbes < maxRetries /\ LastPoll.err.nil
               /\ AsyncInProgress(LastPoll.status, LastPoll.resp)
            => ~Returned)

----------------------------------------------------------------------------
(* Statuses the service answers a probe with *)

InPoll == op = "Poll"
InCancel == op = "Cancel"
\* The last exchange of the call got a response from the service.
Answered == Len(xs) >= 1 /\ xs[Len(xs)].neterr = ""
LastX == xs[Len(xs)]

\* C11: when the service answers the probe of an unknown or expired handle with
\* a status that is neither success (200) nor running (202), Poll and
\* WaitUntilComplete both return a non-nil error and no result.
C11_UnknownHandleIsAnError ==
    (InPoll \/ InWait) /\ Returned /\ Answered
        /\ LastX.status \notin {StatusOK, StatusAccepted} =>
        /\ ~ret.err.nil
        /\ ret.resp.nil

----------------------------------------------------------------------------
(* Cancel *)

\* What C12 says of the request Cancel sends and of the error it returns.
C12_OneShot ==
    /\ NumProbes = 0
    /\ \A k \in 1..Len(sent) :
          /\ sent[k].method = "POST"
          /\ sent[k].url = baseURL \o "/" \o handle \o "/cancel"
          /\ sent[k].body = "{}"
    /\ (ret.err.nil <=> Answered /\ LastX.status = 200)
    /\ (Answered /\ LastX.status # 200 =>
            IF LastX.decodes
            THEN ret.err = Err("cancel failed: " \o LastX.body.Message \o " (code "
                               \o LastX.body.Code \o ")")
            ELSE ret.err = Err("cancel failed with status " \o ToString(LastX.status)))

AfterCancel == cancelled \in {"accepted", "rejected"}

\* A step of Cancel (into it or out of it) leaves the client as it was.
C13_Frame ==
    op = "Cancel" \/ op' = "Cancel" => config' = config /\ baseURL' = baseURL

\* Between two calls nothing of the last call is left, Cancel or not; and a
\* call after a Cancel treats "still running" as any call does.
C13_AfterCancel ==
    /\ (pc = "idle" =>
            <<op, handle, maxRetries, i, polls, sleeps, xs, sent, issued, ret, args>>
                = <<"none", "", 0, 0, <<>>, 0, <<>>, <<>>, 0, NoRet, NoArgs>>)
    /\ (AfterCancel /\ InPoll /\ Returned /\ Answered /\ LastX.decodes
                    /\ LastX.status = StatusAccepted =>
            /\ ret = [resp |-> LastX.body, err |-> NilErr]
            /\ polls[1].status = StatusAccepted)
    /\ (AfterCancel /\ InWait /\ Answered /\ LastX.decodes
                    /\ LastX.status = StatusAccepted =>
            /\ StillRunning(LastPoll)
            /\ (NumProbes < maxRetries => ~Returned)
            /\ (Returned => ret.err = MaxRetriesExceeded))

\* C13: Cancel leaves the client's base URL and configuration unchanged and
\* keeps no record of the handle, so the call after a Cancel (accepted or
\* rejected) starts from the state any call starts from; a Poll that finds the
\* statement still running (202) returns that response with no error, and
\* WaitUntilComplete keeps waiting on it without failing.
C13_CancelLeavesNoTrace == [](C13_AfterCancel) /\ [][C13_Frame]_vars

\* After an accepted Cancel, Poll found the statement still running and
\* returned that response.
C13_Witness ==
    /\ cancelled = "accepted"
    /\ InPoll /\ Returned
    /\ Answered
    /\ LastX.status = StatusAccepted
    /\ ret = [resp |-> RunBody, err |-> NilErr]

----------------------------------------------------------------------------
(* Credentials *)

\* C14: every request of a call carries, as a bearer token, a credential issued
\* in that call, the kth request the kth issuance, so a call has issued as many
\* credentials as it has sent requests (WaitUntilComplete: one per probe); when
\* the issuance fails nothing is sent and the operation returns an error and no
\* result (Execute, Poll and Cancel: "failed to generate auth token: ...").
C14_FreshCredentialPerRequest ==
    /\ Len(sent) = issued
    /\ \A k \in 1..Len(sent) :
          /\ sent[k].Authorization = "Bearer"
          /\ ~sent[k].token.nil
          /\ sent[k].token = authToken.token
          /\ sent[k].issuance = k
    /\ (authToken.err.nil /\ (InWait \/ InPoll) => issued = NumProbes)
    /\ (authToken.err.nil /\ (InExecute \/ InCancel) /\ Returned => issued = 1)
    /\ (~authToken.err.nil =>
            /\ Len(sent) = 0
            /\ (Returned => ~ret.err.nil /\ ret.resp.nil)
            /\ (Returned /\ (InExecute \/ InPoll \/ InCancel) =>
                    ret.err = Wrap("failed to generate auth token: ", authToken.err)))

\* WaitUntilComplete probed MaxAttempts times: as many requests and credentials.
C14_Witness ==
    /\ InWait /\ Returned
    /\ NumProbes = MaxAttempts
    /\ issued = MaxAttempts
    /\ Len(sent) = MaxAttempts
    /\ sent[MaxAttempts].issuance = MaxAttempts

----------------------------------------------------------------------------
(* The parameters of the submit request *)

\* The request key the caller supplied to Execute ("" when none).
RequestKey == IF args.opts.nil THEN "" ELSE args.opts.RequestID

\* C15: the submit request has requestId exactly when the caller supplied a
\* non-empty request key (and it is that key), retry=true exactly when a
\* non-empty key was supplied and Retry was not set to false, never retry
\* without requestId, and always nullable=true and async=<flag>; the URL is the
\* base URL with these parameters.
C15_SubmitParameters ==
    InExecute /\ Returned /\ Len(sent) = 1 =>
        /\ ("requestId" \in DOMAIN sent[1].params <=> RequestKey # "")
        /\ (RequestKey # "" => sent[1].params.requestId = RequestKey)
        /\ ("retry" \in DOMAIN sent[1].params
                <=> RequestKey # "" /\ args.opts.Retry # "false")
        /\ ("retry" \in DOMAIN sent[1].params =>
                /\ sent[1].params.retry = "true"
                /\ "requestId" \in DOMAIN sent[1].params)
        /\ sent[1].params.nullable = "true"
        /\ sent[1].params.async = (IF args.async THEN "true" ELSE "false")
        /\ sent[1].url = baseURL \o "?" \o Encode(sent[1].params)

\* A request key with Retry left unset: requestId and retry=true are both sent.
C15_Witness ==
    /\ InExecute /\ Returned
    /\ Len(sent) = 1
    /\ args.async
    /\ args.opts = [nil |-> FALSE, RequestID |-> "r1", Retry |-> "nil"]
    /\ sent[1].url = baseURL \o "?async=true&nullable=true&requestId=r1&retry=true"

----------------------------------------------------------------------------
(* Poll, a single probe *)

\* C16: one Poll issues at most one credential, sends at most one request (a
\* GET), has at most one exchange and never sleeps; when the request got a
\* response, Poll returns that response's status: with the decoded body and no
\* error, or with no body and the decode error when the body does not decode.
C16_PollIsOneProbe ==
    InPoll /\ Returned =>
        /\ NumProbes = 1
        /\ issued <= 1 /\ Len(sent) <= 1 /\ Len(xs) <= 1
        /\ \A k \in 1..Len(sent) : sent[k].method = "GET"
        /\ sleeps = 0
        /\ (Answered =>
                /\ polls[1].status = LastX.status
                /\ IF LastX.decodes
                   THEN ret = [resp |-> LastX.body, err |-> NilErr]
                   ELSE ret = [resp |-> NilResp,
                               err |-> Err("failed to decode poll response: EOF")])

\* The service answered 500 with a body that does not decode: Poll returned
\* the 500 beside the decode error.
C16_Witness ==
    /\ InPoll /\ Returned
    /\ Answered
    /\ ~LastX.decodes
    /\ LastX.status = 500
    /\ polls[1].status = 500
    /\ ~ret.err.nil

----------------------------------------------------------------------------
(* Bodies that do not decode *)

\* The error carries the HTTP status: it is one of the client's error texts
\* that are written with the status in them.
StatusCoded(err, status) ==
    err.text \in
        {"cancel failed with status " \o ToString(status)}
        \cup {"unexpected status " \o ToString(status) \o ": " \o b.Message :
                b \in Bodies}

\* C17: when the service answers Execute, Poll or Cancel with a status that is
\* not a success and a body that does not decode, the operation returns a
\* non-nil error that carries the status: in its text (Execute, Cancel) or as
\* the status Poll returns beside it.
C17_StatusSurvivesUndecodableBody ==
    (InExecute \/ InPoll \/ InCancel) /\ Returned /\ Answered /\ ~LastX.decodes
        /\ LastX.status \notin {StatusOK, StatusAccepted} =>
        /\ ~ret.err.nil
        /\ (InPoll => polls[1].status = LastX.status)
        /\ (InExecute \/ InCancel => StatusCoded(ret.err, LastX.status))

----------------------------------------------------------------------------
(* The claims of the credential *)

\* Both keys are what GenerateJWT needs: a PKCS#8 RSA private key that can
\* sign, and the PEM of its public key.
ValidKeyPair(cfg) == cfg.PrivateKey = "rsa_pkcs8" /\ cfg.PublicKey = "pem_public_key"

\* A of C18: every "." of the account is "-", every other character is in
\* upper case.
C18_A(account) ==
    Str([k \in DOMAIN account |->
            IF account[k] = "." THEN "-" ELSE ToUpperChar(account[k])])
\* U of C18: the user in upper case.
C18_U(user) == Str([k \in DOMAIN user |-> ToUpperChar(user[k])])
\* F of C18, the hash and its encoding left symbolic.
C18_F(pub) == "SHA256:" \o "base64(sha256(" \o pub \o "))"

\* C18: for every account, every user and a valid key pair, GenerateJWT
\* returns a token with subject A.U and issuer A.U.F, where A is the account in
\* upper case with "-" for every ".", U the user in upper case and F the
\* fingerprint "SHA256:" + base64(sha256(public key bytes)); the account
\* ab.cd-12 gives AB-CD-12.
C18_SubjectAndIssuer ==
    jwt.out.called /\ ValidKeyPair(jwt.cfg) =>
        /\ jwt.out.err.nil
        /\ ~jwt.out.token.nil
        /\ jwt.out.token.Subject = C18_A(jwt.cfg.Account) \o "." \o C18_U(jwt.cfg.User)
        /\ jwt.out.token.Issuer = jwt.out.token.Subject \o "." \o C18_F(jwt.cfg.PublicKey)
        /\ (jwt.cfg.Account = <<"a", "b", ".", "c", "d", "-", "1", "2">> =>
                jwt.out.token.Subject = "AB-CD-12." \o C18_U(jwt.cfg.User))

\* The account ab.cd-12 and the user vj.
C18_Witness ==
    /\ jwt.out.called
    /\ ValidKeyPair(jwt.cfg)
    /\ jwt.cfg.Account = <<"a", "b", ".", "c", "d", "-", "1", "2">>
    /\ jwt.out.token.Subject = "AB-CD-12.VJ"
    /\ jwt.out.token.Issuer = "AB-CD-12.VJ.SHA256:base64(sha256(pem_public_key))"

----------------------------------------------------------------------------
(* The failures of the issuance *)

\* The kind of an issuance error, told by its text (the code has no error
\* types): "" for nil and for a text of no kind.
KindOf(err) ==
    CASE err.text \in
            {"invalid PEM format for private key",
             "x509: failed to parse private key (use ParsePKCS1PrivateKey instead for this key format)",
             "fingerprint generation failed: invalid PEM for public key"}
            -> "InvalidKeyFormat"
      [] err.text = "not an RSA private key" -> "UnsupportedKeyType"
      [] err.text = "JWT signing failed: crypto/rsa: message too long for RSA key size"
            -> "SigningFailed"
      [] OTHER -> ""

\* The kinds C19 gives to a TokenConfig: one for each failure case it is in.
KindsFor(cfg) ==
    (IF \/ cfg.PrivateKey \in {"not_pem", "rsa_pkcs1"}
        \/ cfg.PublicKey \in {"not_pem", "pem_other"}
     THEN {"InvalidKeyFormat"} ELSE {})
    \cup (IF cfg.PrivateKey = "ec_pkcs8" THEN {"UnsupportedKeyType"} ELSE {})
    \cup (IF cfg.PrivateKey = "rsa_pkcs8_short" THEN {"SigningFailed"} ELSE {})

\* C19: GenerateJWT returns either a token or an error, never both; when a key
\* is not PEM, the public PEM is not a public key or the private key is not
\* PKCS#8 (InvalidKeyFormat), the private key is not RSA (UnsupportedKeyType)
\* or signing fails (SigningFailed), it returns no token and an error of the
\* kind of one of the cases the keys are in; a token is returned only for a
\* valid key pair.
C19_IssuanceFailureKinds ==
    jwt.out.called =>
        /\ (jwt.out.token.nil <=> ~jwt.out.err.nil)
        /\ (KindsFor(jwt.cfg) # {} =>
                /\ jwt.out.token.nil
                /\ KindOf(jwt.out.err) \in KindsFor(jwt.cfg))
        /\ (~jwt.out.token.nil => ValidKeyPair(jwt.cfg))

----------------------------------------------------------------------------
(* Callers that share the Client *)

\* No request was sent, so there is no exchange.
NoExchange == [neterr |-> "", status |-> 0, decodes |-> FALSE, body |-> NilResp]

\* The kth exchange of es.
ExchangeAt(es, k) == IF k <= Len(es) THEN es[k] ELSE NoExchange

\* WaitUntilComplete(h, interval, n) run by a caller alone, from loop counter k
\* on, when the exchanges for h are es: what it returns and how many probes it
\* has made.
RECURSIVE SoloWait(_, _, _, _)
SoloWait(h, n, es, k) ==
    IF ~(k < n)
    THEN [ret |-> [resp |-> NilResp, err |-> MaxRetriesExceeded], probes |-> k]
    ELSE LET w == WaitSwitch(PollResult(Poll(h, 0, ExchangeAt(es, k + 1))))
         IN  IF w.pc = "done"
             THEN [ret |-> w.ret, probes |-> k + 1]
             ELSE SoloWait(h, n, es, k + 1)

\* The outcome of caller c and the number of its probes.
OutcomeOf(c) == [ret |-> conc[c].ret, probes |-> Len(conc[c].polls)]

\* What caller c, having returned, would have got running alone on the
\* exchanges of its own handle.
SoloOutcome(c) ==
    CASE conc[c].op = "WaitUntilComplete" ->
            SoloWait(conc[c].handle, conc[c].maxRetries, conc[c].xs, 0)
      [] conc[c].op = "Poll" ->
            [ret |-> [resp |-> Poll(conc[c].handle, 0, ExchangeAt(conc[c].xs, 1)).resp,
                      err |-> Poll(conc[c].handle, 0, ExchangeAt(conc[c].xs, 1)).err],
             probes |-> 1]
      [] conc[c].op = "Cancel" ->
            [ret |-> [resp |-> NilResp,
                      err |-> Cancel(conc[c].handle, ExchangeAt(conc[c].xs, 1)).err],
             probes |-> 0]
      [] OTHER ->
            [ret |-> [resp |-> Execute("SELECT 1", TRUE, NilOpts,
                                       ExchangeAt(conc[c].xs, 1)).resp,
                      err |-> Execute("SELECT 1", TRUE, NilOpts,
                                      ExchangeAt(conc[c].xs, 1)).err],
             probes |-> 0]

\* The callers are on different handles, and one that has returned has the
\* outcome and the probe count of a run on its own.
C20_Independent ==
    /\ \A c, d \in Callers :
          c # d /\ conc[c].handle # "" => conc[c].handle # conc[d].handle
    /\ \A c \in Callers : conc[c].pc = "done" => OutcomeOf(c) = SoloOutcome(c)

\* C20: in every interleaving of the steps of callers that share one Client,
\* each on its own handle, no step changes the Client (config, base URL), and a
\* caller that has returned has the outcome and the number of probes it gets
\* running alone on the exchanges of its own handle.
C20_CallersDoNotInterfere ==
    [](C20_Independent) /\ [][config' = config /\ baseURL' = baseURL]_vars

\* Both callers have returned from WaitUntilComplete, their probes interleaved:
\* one got the result after ConcAttempts probes, the other ran out of retries.
C20_Witness ==
    /\ conc["c1"].op = "WaitUntilComplete" /\ conc["c1"].pc = "done"
    /\ conc["c2"].op = "WaitUntilComplete" /\ conc["c2"].pc = "done"
    /\ conc["c1"].mixed /\ conc["c2"].mixed
    /\ Len(conc["c1"].polls) = ConcAttempts
    /\ conc["c1"].ret = [resp |-> OkBody, err |-> NilErr]
    /\ Len(conc["c2"].polls) = ConcAttempts
    /\ conc["c2"].ret.err = MaxRetriesExceeded

----------------------------------------------------------------------------
(* The base URL of the Client *)

\* The host the README documents for a Config: OverrideHost when set, else the
\* PrivateLink host when PrivateLink is set, else the default host.
DocumentedHost(cfg) ==
    IF cfg.OverrideHost # "" THEN cfg.OverrideHost
    ELSE IF cfg.PrivateLink THEN "privatelink.snowflakecomputing.com"
    ELSE "snowflakecomputing.com"

\* C21: the base URL of the Client NewClient returns is
\* https://<account>.<host>/api/v2/statements with the documented host:
\* snowflakecomputing.com by default, privatelink.snowflakecomputing.com with
\* PrivateLink, the OverrideHost when one is set, also when PrivateLink is set.
C21_DocumentedHostSelection ==
    newc.out.called /\ ~newc.out.nil =>
        newc.out.baseURL = "https://" \o Str(newc.cfg.Account) \o "."
                           \o DocumentedHost(newc.cfg) \o "/api/v2/statements"

----------------------------------------------------------------------------
(* Query *)

InQuery == op = "Query"

\* C22: Query returns rows with a nil error only when the statement reached
\* terminal success (the service answered 200 with a body that is not
\* async-in-progress); when the service answers "still running" (202 or body
\* code "333334") Query returns an error, not that response's absent rows.
C22_QueryReturnsOnlyFinishedRows ==
    InQuery /\ Returned =>
        /\ (ret.err.nil =>
                /\ Answered /\ LastX.decodes
                /\ LastX.status = 200
                /\ ~AsyncInProgress(LastX.status, LastX.body)
                /\ rows = LastX.body.Data)
        /\ (Answered /\ LastX.decodes /\ AsyncInProgress(LastX.status, LastX.body)
                => ~ret.err.nil /\ rows = <<>>)

----------------------------------------------------------------------------
(* WaitUntilComplete without a budget *)

NoBudget == InWait /\ maxRetries <= 0

\* With maxRetries <= 0 nothing is probed, slept, issued or sent, the service
\* is never asked, and the only return is RetriesExhausted.
C23_NothingDone ==
    NoBudget =>
        /\ NumProbes = 0
        /\ sleeps = 0
        /\ issued = 0
        /\ Len(sent) = 0
        /\ Len(xs) = 0
        /\ pc \in {"loop", "done"}
        /\ (Returned => ret = [resp |-> NilResp, err |-> MaxRetriesExceeded])

\* C23: WaitUntilComplete called with maxRetries <= 0 makes no probe and no
\* sleep, issues no credential and sends no request, so the state of the
\* statement plays no part, and it returns the error "max retries exceeded
\* while waiting for completion".
C23_NoBudgetNoProbe == [](C23_NothingDone) /\ (NoBudget ~> NoBudget /\ Exhausted)

\* A negative maxRetries: returned RetriesExhausted with nothing done.
C23_Witness ==
    /\ InWait /\ Returned
    /\ maxRetries < 0
    /\ NumProbes = 0 /\ sleeps = 0 /\ issued = 0
    /\ ret.err = MaxRetriesExceeded

----------------------------------------------------------------------------
(* The wait loop of the tests beside the wait loop of the Client *)

\* C24: given the same maxRetries and the same probe outcomes, the loop of the
\* tests (mockClient.WaitUntilComplete) and the loop of the Client never
\* diverge: a loop that has returned has made at least the probes and sleeps the
\* other has made so far, and when both have returned they have made the same
\* number of probes and of sleeps and return the same result or the same error.
C24_LoopsAgree ==
    /\ (pair.prod.pc = "done" =>
            pair.mock.probes <= pair.prod.probes /\ pair.mock.sleeps <= pair.prod.sleeps)
    /\ (pair.mock.pc = "done" =>
            pair.prod.probes <= pair.mock.probes /\ pair.prod.sleeps <= pair.mock.sleeps)
    /\ (pair.prod.pc = "done" /\ pair.mock.pc = "done" =>
            /\ pair.prod.probes = pair.mock.probes
            /\ pair.prod.sleeps = pair.mock.sleeps
            /\ pair.prod.ret = pair.mock.ret)

====
